---------------------------- MODULE Spec2Model ----------------------------
(***************************************************************************)
(* k6-testing: the assertion dispatcher (assert.ts) and the expectation    *)
(* builder with its matcher set (expect.ts), run inside one k6 iteration   *)
(* (the execution unit).                                                   *)
(*                                                                         *)
(* JavaScript values are tagged records [t, n, s]: t is the type tag, n    *)
(* the numeric payload (numbers are fixed-point, in units of 1/Scale; an   *)
(* object value carries its heap address, so two objects are the same      *)
(* reference iff their addresses are equal), s the string payload.         *)
(***************************************************************************)
EXTENDS Integers, Sequences, FiniteSets, TLC

(***************************************************************************)
(* Bounds of the model.                                                    *)
(***************************************************************************)
\* statements one execution unit evaluates at most
MaxStmts == 2
\* largest precision argument handed to toBeCloseTo
MaxPrecision == 3
\* iterations of the script body the test run is configured with
MaxIterations == 2

(***************************************************************************)
(* The state of a test run: the iteration in progress (the execution unit) *)
(* and what it has done to the k6 runtime.                                 *)
(***************************************************************************)
VARIABLES
    unitState,      \* Running, Completed, Aborted, Failed or Errored
    evaluated,      \* statements the current iteration has evaluated
    last,           \* the statement evaluated last and what it did
    abortCalls,     \* calls of exec.test.abort by the current iteration
    failCalls,      \* calls of fail by the current iteration
    checkCalls,     \* calls of check by the current iteration
    failedChecks,   \* checks the current iteration recorded as failed
    consoleLines,   \* lines the current iteration wrote to the console
    testAborted,    \* the whole test run has been aborted
    iteration,      \* the number of the current iteration, from 1
    repeated,       \* the statement evaluated last is the one evaluated before it
    units           \* the units that run in parallel (virtual users), each
                    \* with its script body, its position in it, its state
                    \* and the calls it has made

vars == <<unitState, evaluated, last, abortCalls, failCalls, checkCalls,
          failedChecks, consoleLines, testAborted, iteration, repeated, units>>

\* numbers are held in hundredths: 10.2 is 1020
Scale == 10 * 10

(***************************************************************************)
(* Values.                                                                 *)
(***************************************************************************)
Undefined == [t |-> "undefined", n |-> 0, s |-> ""]
Null == [t |-> "null", n |-> 0, s |-> ""]
Bool(b) == [t |-> "boolean", n |-> IF b THEN 1 ELSE 0, s |-> ""]
Num(k) == [t |-> "number", n |-> k, s |-> ""]
Whole(i) == Num(i * Scale)
NaN == [t |-> "NaN", n |-> 0, s |-> ""]
Str(x) == [t |-> "string", n |-> 0, s |-> x]
BigInt(i) == [t |-> "bigint", n |-> i, s |-> ""]
Ref(r) == [t |-> "object", n |-> r, s |-> ""]

\* The objects of the heap, by address.  1 and 2 are two instances of {a:1},
\* 3 is [1,2], 4 is [2,1], 5 is an object that contains itself (o.self = o),
\* 6 is {a: undefined} and 7 is {}.
Heap ==
    <<  [kind |-> "object", keys |-> <<"a">>, vals |-> <<Whole(1)>>],
        [kind |-> "object", keys |-> <<"a">>, vals |-> <<Whole(1)>>],
        [kind |-> "array", keys |-> <<"0", "1">>, vals |-> <<Whole(1), Whole(2)>>],
        [kind |-> "array", keys |-> <<"0", "1">>, vals |-> <<Whole(2), Whole(1)>>],
        [kind |-> "object", keys |-> <<"self">>, vals |-> <<Ref(5)>>],
        [kind |-> "object", keys |-> <<"a">>, vals |-> <<Undefined>>],
        [kind |-> "object", keys |-> <<>>, vals |-> <<>>] >>

Refs == {Ref(r) : r \in DOMAIN Heap}

Abs(x) == IF x < 0 THEN -x ELSE x

\* Number::toString of a fixed-point number: 1020 is "10.2", 1001 is "10.01".
NumberToString(k) ==
    LET a == Abs(k)
        fp == a % Scale
        frac == IF fp = 0 THEN ""
                ELSE IF fp % 10 = 0 THEN "." \o ToString(fp \div 10)
                ELSE IF fp < 10 THEN ".0" \o ToString(fp)
                ELSE "." \o ToString(fp)
    IN  (IF k < 0 THEN "-" ELSE "") \o ToString(a \div Scale) \o frac

(***************************************************************************)
(* `${value}`: the string conversion a template literal applies.  An       *)
(* array converts as its elements joined by ",", with null and undefined   *)
(* elements (and an array met again inside itself) as the empty string;    *)
(* any other object as "[object Object]".                                  *)
(***************************************************************************)
RECURSIVE TemplateString(_, _)
RECURSIVE JoinTemplate(_, _, _)
JoinTemplate(vals, i, stack) ==
    IF i > Len(vals) THEN ""
    ELSE (IF i > 1 THEN "," ELSE "")
         \o (IF vals[i].t \in {"undefined", "null"} THEN ""
             ELSE TemplateString(vals[i], stack))
         \o JoinTemplate(vals, i + 1, stack)

TemplateString(v, stack) ==
    CASE v.t = "undefined" -> "undefined"
      [] v.t = "null" -> "null"
      [] v.t = "boolean" -> IF v.n = 1 THEN "true" ELSE "false"
      [] v.t = "number" -> NumberToString(v.n)
      [] v.t = "NaN" -> "NaN"
      [] v.t = "string" -> v.s
      [] v.t = "bigint" -> ToString(v.n)
      [] v.t = "object" ->
            IF Heap[v.n].kind = "array"
            THEN IF v.n \in stack THEN ""
                 ELSE JoinTemplate(Heap[v.n].vals, 1, stack \cup {v.n})
            ELSE "[object Object]"

(***************************************************************************)
(* JSON.stringify.  The result is a string (k = "str"), the value          *)
(* undefined (k = "undef": JSON.stringify(undefined) is undefined, not a   *)
(* string), or a TypeError (k = "throw": a BigInt, or an object that       *)
(* contains itself).                                                       *)
(***************************************************************************)
JStr(x) == [k |-> "str", s |-> x]
JUndef == [k |-> "undef", s |-> ""]
JThrow == [k |-> "throw", s |-> ""]

RECURSIVE SerializeJSONProperty(_, _)
RECURSIVE SerializeJSONArray(_, _, _)
RECURSIVE SerializeJSONObject(_, _, _, _, _)

\* elements from i on; an undefined element is written as null
SerializeJSONArray(vals, i, stack) ==
    IF i > Len(vals) THEN JStr("")
    ELSE LET e == SerializeJSONProperty(vals[i], stack)
             rest == SerializeJSONArray(vals, i + 1, stack)
         IN  IF e.k = "throw" \/ rest.k = "throw" THEN JThrow
             ELSE JStr((IF i > 1 THEN "," ELSE "")
                       \o (IF e.k = "undef" THEN "null" ELSE e.s) \o rest.s)

\* properties from i on, in insertion order; a property whose value is
\* undefined is left out.  first: no property has been written yet.
SerializeJSONObject(keys, vals, i, first, stack) ==
    IF i > Len(vals) THEN JStr("")
    ELSE LET e == SerializeJSONProperty(vals[i], stack)
         IN  IF e.k = "throw" THEN JThrow
             ELSE LET rest == SerializeJSONObject(keys, vals, i + 1,
                                                  first /\ e.k = "undef", stack)
                  IN  IF rest.k = "throw" THEN JThrow
                      ELSE IF e.k = "undef" THEN rest
                      ELSE JStr((IF first THEN "" ELSE ",")
                                \o "\"" \o keys[i] \o "\":" \o e.s \o rest.s)

SerializeJSONProperty(v, stack) ==
    CASE v.t = "undefined" -> JUndef
      [] v.t = "null" -> JStr("null")
      [] v.t = "boolean" -> JStr(IF v.n = 1 THEN "true" ELSE "false")
      [] v.t = "number" -> JStr(NumberToString(v.n))
      [] v.t = "NaN" -> JStr("null")
      [] v.t = "string" -> JStr("\"" \o v.s \o "\"")
      [] v.t = "bigint" -> JThrow
      [] v.t = "object" ->
            IF v.n \in stack THEN JThrow
            ELSE LET o == Heap[v.n]
                     body == IF o.kind = "array"
                             THEN SerializeJSONArray(o.vals, 1, stack \cup {v.n})
                             ELSE SerializeJSONObject(o.keys, o.vals, 1, TRUE,
                                                      stack \cup {v.n})
                 IN  IF body.k = "throw" THEN JThrow
                     ELSE IF o.kind = "array" THEN JStr("[" \o body.s \o "]")
                     ELSE JStr("{" \o body.s \o "}")

JSONStringify(v) == SerializeJSONProperty(v, {})

(***************************************************************************)
(* Conversions and comparisons of the language.                            *)
(***************************************************************************)
\* ToBoolean: the falsy values are false, 0, "", null, undefined, NaN, 0n
ToBoolean(v) ==
    CASE v.t \in {"undefined", "null", "NaN"} -> FALSE
      [] v.t \in {"boolean", "number", "bigint"} -> v.n # 0
      [] v.t = "string" -> v.s # ""
      [] v.t = "object" -> TRUE

\* mutant: lhs == rhs, which converts a string to compare it with a number
StrictEquals_loose(lhs, rhs) ==
    /\ lhs.t # "NaN"
    /\ \/ lhs = rhs
       \/ /\ lhs.t \in {"number", "string"}
          /\ rhs.t \in {"number", "string"}
          /\ TemplateString(lhs, {}) = TemplateString(rhs, {})

\* lhs === rhs: same type and same value, the same reference for objects;
\* NaN is equal to nothing, itself included
StrictEquals(lhs, rhs) == lhs.t # "NaN" /\ lhs = rhs

\* the numbers a numeric string of the model can denote: the whole numbers
\* up to 12
NumericRange == {k * Scale : k \in 0 .. 12}

\* StringToNumber: "" is 0, a numeric string its number, anything else NaN
StringToNumber(str) ==
    IF str = "" THEN Num(0)
    ELSE IF \E k \in NumericRange : NumberToString(k) = str
         THEN Num(CHOOSE k \in NumericRange : NumberToString(k) = str)
         ELSE NaN

\* ToNumber of a value that is not a BigInt; an object converts through its
\* string form
ToNumber(v) ==
    CASE v.t = "undefined" -> NaN
      [] v.t = "null" -> Num(0)
      [] v.t = "boolean" -> Num(v.n * Scale)
      [] v.t \in {"number", "NaN"} -> v
      [] v.t = "string" -> StringToNumber(v.s)
      [] v.t = "object" -> StringToNumber(TemplateString(v, {}))

\* ToNumeric for a relational comparison: a BigInt compares by its
\* mathematical value
ToNumeric(v) == IF v.t = "bigint" THEN Num(v.n * Scale) ELSE ToNumber(v)

\* a < b on two non-string operands: false as soon as one side is NaN
LessThan(a, b) ==
    LET na == ToNumeric(a)
        nb == ToNumeric(b)
    IN  na.t = "number" /\ nb.t = "number" /\ na.n < nb.n

\* a <= b is not !(b < a): it is false too when one side is NaN
LessThanOrEqual(a, b) ==
    LET na == ToNumeric(a)
        nb == ToNumeric(b)
    IN  na.t = "number" /\ nb.t = "number" /\ na.n <= nb.n

(***************************************************************************)
(* colors.ts                                                               *)
(***************************************************************************)
ANSI_COLORS == [reset |-> "\\x1b[0m", red |-> "\\x1b[31m", green |-> "\\x1b[32m"]

colorize(text, color) == ANSI_COLORS[color] \o text \o ANSI_COLORS.reset

(***************************************************************************)
(* What one call of assert, assertEquals or a matcher did: whether a       *)
(* native TypeError was raised before any dispatch, the verdict it         *)
(* evaluated ("none" when it evaluated none), the k6 primitive it called   *)
(* ("abort" is exec.test.abort, "fail" is fail, "check" is check) with the *)
(* message or check label it passed, the result check recorded, the number *)
(* of lines it wrote to the console, the number of calls of assert it      *)
(* made, and whether it ran createExpectationMessage.                      *)
(***************************************************************************)
Effect(raised, verdict, prim, msg, ok, logs, dispatched, built) ==
    [raised |-> raised, verdict |-> verdict, prim |-> prim, msg |-> msg,
     ok |-> ok, logs |-> logs, dispatched |-> dispatched, built |-> built]

Verdict(b) == IF b THEN "true" ELSE "false"

\* a native TypeError raised inside a matcher: every matcher runs
\* createExpectationMessage before anything that can raise, or raises in it
TypeError == Effect(TRUE, "none", "none", "", FALSE, 0, 0, TRUE)

(***************************************************************************)
(* assert.ts                                                               *)
(***************************************************************************)
\* mutant: the two branches of the soft test exchanged
assert_swapped(condition, message, soft) ==
    IF condition THEN Effect(FALSE, "true", "none", "", FALSE, 0, 1, FALSE)
    ELSE IF ToBoolean(soft)
         THEN Effect(FALSE, "false", "abort", message, FALSE, 0, 1, FALSE)
         ELSE Effect(FALSE, "false", "fail", message, FALSE, 0, 1, FALSE)

\* soft is undefined when the argument is omitted
assert(condition, message, soft) ==
    IF condition THEN Effect(FALSE, "true", "none", "", FALSE, 0, 1, FALSE)
    ELSE IF ToBoolean(soft)
         THEN Effect(FALSE, "false", "fail", message, FALSE, 0, 1, FALSE)
         ELSE Effect(FALSE, "false", "abort", message, FALSE, 0, 1, FALSE)

\* mutant: a deep comparison instead of ===
assertEquals_deep(lhs, rhs, message, soft) ==
    assert(JSONStringify(lhs) = JSONStringify(rhs), message, soft)

assertEquals(lhs, rhs, message, soft) ==
    assert(StrictEquals(lhs, rhs), message, soft)

(***************************************************************************)
(* expect.ts                                                               *)
(***************************************************************************)
\* `${x}` of the result of JSON.stringify: undefined prints as "undefined"
JSONText(j) == IF j.k = "undef" THEN "undefined" ELSE j.s

\* createExpectationMessage serializes both values of the context before it
\* builds the block; a value JSON.stringify rejects makes it raise
createExpectationMessage(actualValue, expectedValue) ==
    LET actual == JSONStringify(actualValue)
        expected == JSONStringify(expectedValue)
    IN  IF actual.k = "throw" \/ expected.k = "throw" THEN JThrow
        ELSE JStr("\n  Expected: " \o colorize(JSONText(expected), "green")
                  \o "\n  Received: " \o colorize(JSONText(actual), "red")
                  \o "\n  At:")

\* the expectation object: the captured subject and the bound mode
createExpectation(value, isSoft) == [value |-> value, isSoft |-> isSoft]

\* mutant: expect binds the soft mode
expect_bindsSoft(value) == createExpectation(value, TRUE)

\* hard assertions by default
expect(value) == createExpectation(value, FALSE)

\* soft assertions when using expect.soft()
expect_soft(value) == createExpectation(value, TRUE)

\* mutant: a matcher that passes only as the first statement of its
\* iteration
Matcher_firstOnly(e, pass, header, expectedValue, indent) ==
    LET errorHeader == colorize(header, "red")
        errorContext == createExpectationMessage(e.value, expectedValue)
    IN  IF errorContext.k = "throw" THEN TypeError
        ELSE [assert(pass /\ evaluated = 0,
                     errorHeader \o "\n" \o indent \o errorContext.s,
                     Bool(e.isSoft))
                 EXCEPT !.built = TRUE]

\* The shape every matcher but the soft toBe has: the header and the context
\* block are built first, then the verdict and the composed message go to
\* assert with the bound mode.
Matcher(e, pass, header, expectedValue, indent) ==
    LET errorHeader == colorize(header, "red")
        errorContext == createExpectationMessage(e.value, expectedValue)
    IN  IF errorContext.k = "throw" THEN TypeError
        ELSE [assert(pass, errorHeader \o "\n" \o indent \o errorContext.s,
                     Bool(e.isSoft))
                 EXCEPT !.built = TRUE]

Indent8 == "        "
Indent10 == "          "

\* the check callback ends in the expression statement `value === expected;`
\* and returns nothing
CheckCallbackResult == Undefined

toBe(e, expected) ==
    LET label == "Expected value " \o TemplateString(e.value, {}) \o " to be "
                 \o TemplateString(expected, {})
        errorContext == createExpectationMessage(e.value, expected)
    IN  IF errorContext.k = "throw" THEN TypeError
        ELSE IF e.isSoft
        THEN \* console.log, then check(value, {[label]: callback}): the
             \* callback logs a second line, and check records its result
             Effect(FALSE, Verdict(StrictEquals(e.value, expected)), "check",
                    label, ToBoolean(CheckCallbackResult), 2, 0, TRUE)
        ELSE Matcher(e, StrictEquals(e.value, expected), label, expected,
                     Indent10)

RECURSIVE Pow10(_)
Pow10(k) == IF k <= 0 THEN 1 ELSE 10 * Pow10(k - 1)

\* Math.pow(10, -precision) for a whole precision, as a fraction
MathPow10Neg(precision) ==
    IF precision >= 0 THEN [num |-> 1, den |-> Pow10(precision)]
    ELSE [num |-> Pow10(-precision), den |-> 1]

\* Math.abs(value - expected) on numbers
AbsDiff(value, expected) ==
    LET a == ToNumber(value)
        b == ToNumber(expected)
    IN  IF a.t = "NaN" \/ b.t = "NaN" THEN NaN ELSE Num(Abs(a.n - b.n))

DefaultPrecision == 2

\* mutant: the tolerance included (<= in place of <)
CloseTo_inclusive(diff, precision) ==
    LET tol == MathPow10Neg(precision.n \div Scale)
    IN  diff.t = "number" /\ diff.n * tol.den <= tol.num * Scale

\* diff < Math.pow(10, -precision)
CloseTo(diff, precision) ==
    LET tol == MathPow10Neg(precision.n \div Scale)
    IN  diff.t = "number" /\ diff.n * tol.den < tol.num * Scale

\* precision is undefined when the argument is omitted
toBeCloseTo(e, expected, precisionArg) ==
    LET precision == IF precisionArg.t = "undefined"
                     THEN Whole(DefaultPrecision) ELSE precisionArg
        diff == AbsDiff(e.value, expected)
        pass == CloseTo(diff, precision)
    IN  Matcher(e, pass,
                "Expected value " \o TemplateString(e.value, {})
                    \o " to be close to " \o TemplateString(expected, {})
                    \o " with precision " \o TemplateString(precision, {})
                    \o ", but got a difference of " \o TemplateString(diff, {}),
                expected, Indent8)

toBeDefined(e) ==
    Matcher(e, ~StrictEquals(e.value, Undefined),
            "Expected value " \o TemplateString(e.value, {}) \o " to be defined",
            Str("!= undefined"), Indent8)

toBeFalsy(e) ==
    Matcher(e, ~ToBoolean(e.value),
            "Expected value " \o TemplateString(e.value, {}) \o " to be falsy",
            Str("false"), Indent8)

toBeGreaterThan(e, expected) ==
    Matcher(e, LessThan(expected, e.value),
            "Expected value " \o TemplateString(e.value, {})
                \o " to be greater than " \o TemplateString(expected, {}),
            Str(TemplateString(e.value, {}) \o " > " \o TemplateString(expected, {})),
            Indent8)

toBeGreaterThanOrEqual(e, expected) ==
    Matcher(e, LessThanOrEqual(expected, e.value),
            "Expected value " \o TemplateString(e.value, {})
                \o " to be greater than or equal to " \o TemplateString(expected, {}),
            Str(TemplateString(e.value, {}) \o " >= " \o TemplateString(expected, {})),
            Indent8)

toBeLessThan(e, expected) ==
    Matcher(e, LessThan(e.value, expected),
            "Expected value " \o TemplateString(e.value, {})
                \o " to be less than " \o TemplateString(expected, {}),
            Str(TemplateString(e.value, {}) \o " < " \o TemplateString(expected, {})),
            Indent8)

toBeLessThanOrEqual(e, expected) ==
    Matcher(e, LessThanOrEqual(e.value, expected),
            "Expected value " \o TemplateString(e.value, {})
                \o " to be less than or equal to " \o TemplateString(expected, {}),
            Str(TemplateString(e.value, {}) \o " <= " \o TemplateString(expected, {})),
            Indent8)

\* isNaN(value) converts its argument to a number first; a BigInt cannot be
\* converted and raises
toBeNaN(e) ==
    IF e.value.t = "bigint" THEN TypeError
    ELSE Matcher(e, ToNumber(e.value).t = "NaN",
                 "Expected value " \o TemplateString(e.value, {}) \o " to be NaN",
                 Str("NaN"), Indent8)

toBeNull(e) ==
    Matcher(e, StrictEquals(e.value, Null),
            "Expected value " \o TemplateString(e.value, {}) \o " to be null",
            Str("null"), Indent8)

toBeTruthy(e) ==
    Matcher(e, ToBoolean(e.value),
            "Expected value " \o TemplateString(e.value, {}) \o " to be truthy",
            Str("true"), Indent8)

toBeUndefined(e) ==
    Matcher(e, StrictEquals(e.value, Undefined),
            "Expected value " \o TemplateString(e.value, {}) \o " to be undefined",
            Str("undefined"), Indent8)

\* mutant: toEqual by reference identity
toEqual_identity(e, expected) ==
    LET actual == JSONStringify(e.value)
        wanted == JSONStringify(expected)
    IN  IF actual.k = "throw" \/ wanted.k = "throw" THEN TypeError
        ELSE Matcher(e, StrictEquals(e.value, expected),
                     "Expected value " \o JSONText(actual) \o " to equal "
                         \o JSONText(wanted),
                     expected, Indent8)

\* the two sides are compared by their JSON.stringify results (two undefined
\* results are equal)
toEqual(e, expected) ==
    LET actual == JSONStringify(e.value)
        wanted == JSONStringify(expected)
    IN  IF actual.k = "throw" \/ wanted.k = "throw" THEN TypeError
        ELSE Matcher(e, actual = wanted,
                     "Expected value " \o JSONText(actual) \o " to equal "
                         \o JSONText(wanted),
                     expected, Indent8)

\* value.length: reading a property of undefined or null raises; a string
\* and an array have a length, any other value has none (undefined)
LengthOf(v) ==
    CASE v.t = "string" -> Whole(Len(v.s))
      [] v.t = "object" /\ Heap[v.n].kind = "array" -> Whole(Len(Heap[v.n].vals))
      [] OTHER -> Undefined

toHaveLength(e, expected) ==
    IF e.value.t \in {"undefined", "null"} THEN TypeError
    ELSE Matcher(e, StrictEquals(LengthOf(e.value), expected),
                 "Expected value " \o TemplateString(e.value, {})
                     \o " to have a length of " \o TemplateString(expected, {}),
                 expected, Indent8)

(***************************************************************************)
(* The execution unit: one k6 iteration running the statements of a script *)
(* body in program order.  The test run starts the iterations one after    *)
(* the other.                                                              *)
(***************************************************************************)
\* the controller's view of the unit: a soft failure was registered
hadSoftFailure == failCalls > 0 \/ failedChecks > 0

\* The operands the statements draw from.
Values ==
    {Undefined, Null, Bool(TRUE), Bool(FALSE), Whole(0), Whole(1), Whole(2), NaN,
     Str(""), Str("1"), Str("sun"), BigInt(1)} \cup Refs

\* the operands of the two-sided equality statements
EqValues ==
    {Undefined, Null, Bool(TRUE), Whole(1), Whole(2), NaN, Str("1"), BigInt(1),
     Ref(1), Ref(2), Ref(3), Ref(4), Ref(5)}

\* the operands of assertEquals: undefined, 1, "1", NaN and two instances of
\* {a:1}
EqualsOperands == {Undefined, Whole(1), Str("1"), NaN, Ref(1), Ref(2)}

\* the operands of toBeCloseTo: 10, 10.01, 10.1, 10.2, 11 and NaN
CloseSubjects == {Whole(10), Num(1020), NaN}

CloseValues == {Whole(10), Num(1001), Num(1010), Num(1020), Whole(11)}

Precisions == {Undefined} \cup {Whole(k) : k \in 0 .. MaxPrecision}

\* the operands of the relational matchers
Numbers == {Whole(1), Whole(3), NaN}

Lengths == {Whole(1), Whole(2)}

Messages == {"x", "y", "z"}

SoftArgs == {Undefined, Bool(FALSE), Bool(TRUE)}

\* a statement: the operation, the soft argument or bound mode, the subject
\* (or lhs, or condition), the argument (or rhs), the precision, the message
Stmt(op, soft, a, b, p, m) ==
    [op |-> op, soft |-> soft, a |-> a, b |-> b, p |-> p, m |-> m]

NoStmt == Stmt("none", Undefined, Undefined, Undefined, Undefined, "")

NoEffect == Effect(FALSE, "none", "none", "", FALSE, 0, 0, FALSE)

\* the parallel units of a run
Units == {1, 2}

\* a unit about to run the script body program
NewUnit(program) ==
    [program |-> program, pc |-> 1, state |-> "Running", calls |-> <<>>]

Init ==
    /\ units = [u \in Units |-> NewUnit(<<>>)]
    /\ unitState = "Running"
    /\ evaluated = 0
    /\ last = [stmt |-> NoStmt, eff |-> NoEffect]
    /\ abortCalls = 0
    /\ failCalls = 0
    /\ checkCalls = 0
    /\ failedChecks = 0
    /\ consoleLines = 0
    /\ testAborted = FALSE
    /\ iteration = 1
    /\ repeated = FALSE

(***************************************************************************)
(* The k6 primitives.  exec.test.abort(message) aborts the test run and    *)
(* interrupts the iteration; fail(message) throws, which ends the          *)
(* iteration and leaves the test run going; check(value, sets) records the *)
(* truthiness of each callback's result and returns.  A TypeError nobody   *)
(* catches ends the iteration like any thrown error.                       *)
(***************************************************************************)
\* the state of the unit after a statement that did eff
UnitAfter(eff) ==
    IF eff.raised THEN "Errored"
    ELSE IF eff.prim = "abort" THEN "Aborted"
    ELSE IF eff.prim = "fail" THEN "Failed"
    ELSE "Running"

\* control reaches the next statement of the script body
CanEvaluate == unitState = "Running" /\ evaluated < MaxStmts

\* the unit evaluates its next statement: stmt, which does eff
Step(stmt, eff) ==
    /\ evaluated' = evaluated + 1
    /\ last' = [stmt |-> stmt, eff |-> eff]
    /\ unitState' = UnitAfter(eff)
    /\ abortCalls' = abortCalls + (IF eff.prim = "abort" THEN 1 ELSE 0)
    /\ failCalls' = failCalls + (IF eff.prim = "fail" THEN 1 ELSE 0)
    /\ checkCalls' = checkCalls + (IF eff.prim = "check" THEN 1 ELSE 0)
    /\ failedChecks' = failedChecks
                       + (IF eff.prim = "check" /\ ~eff.ok THEN 1 ELSE 0)
    /\ consoleLines' = consoleLines + eff.logs
    /\ testAborted' = (testAborted \/ eff.prim = "abort")
    /\ iteration' = iteration
    /\ repeated' = (stmt = last.stmt)
    /\ units' = units

\* the bound mode of a matcher statement, as the expectation it is called on
Expectation(soft, value) == IF soft THEN expect_soft(value) ELSE expect(value)

\* what the statement stmt does when it is evaluated
EffectOf(stmt) ==
    LET e == Expectation(ToBoolean(stmt.soft), stmt.a)
    IN  CASE stmt.op = "assert" -> assert(ToBoolean(stmt.a), stmt.m, stmt.soft)
          [] stmt.op = "assertEquals" -> assertEquals(stmt.a, stmt.b, stmt.m, stmt.soft)
          [] stmt.op = "toBe" -> toBe(e, stmt.b)
          [] stmt.op = "toBeCloseTo" -> toBeCloseTo(e, stmt.b, stmt.p)
          [] stmt.op = "toBeDefined" -> toBeDefined(e)
          [] stmt.op = "toBeFalsy" -> toBeFalsy(e)
          [] stmt.op = "toBeGreaterThan" -> toBeGreaterThan(e, stmt.b)
          [] stmt.op = "toBeGreaterThanOrEqual" -> toBeGreaterThanOrEqual(e, stmt.b)
          [] stmt.op = "toBeLessThan" -> toBeLessThan(e, stmt.b)
          [] stmt.op = "toBeLessThanOrEqual" -> toBeLessThanOrEqual(e, stmt.b)
          [] stmt.op = "toBeNaN" -> toBeNaN(e)
          [] stmt.op = "toBeNull" -> toBeNull(e)
          [] stmt.op = "toBeTruthy" -> toBeTruthy(e)
          [] stmt.op = "toBeUndefined" -> toBeUndefined(e)
          [] stmt.op = "toEqual" -> toEqual(e, stmt.b)
          [] stmt.op = "toHaveLength" -> toHaveLength(e, stmt.b)

CallAssert ==
    /\ CanEvaluate
    /\ \E condition \in BOOLEAN, message \in Messages, soft \in SoftArgs :
           Step(Stmt("assert", soft, Bool(condition), Undefined, Undefined, message),
                assert(condition, message, soft))

CallAssertEquals ==
    /\ CanEvaluate
    /\ \E lhs \in EqualsOperands, rhs \in EqualsOperands, message \in {"y"},
          soft \in SoftArgs :
           Step(Stmt("assertEquals", soft, lhs, rhs, Undefined, message),
                assertEquals(lhs, rhs, message, soft))

CallToBe ==
    /\ CanEvaluate
    /\ \E soft \in BOOLEAN, value \in EqValues, expected \in EqValues :
           Step(Stmt("toBe", Bool(soft), value, expected, Undefined, ""),
                toBe(Expectation(soft, value), expected))

CallToBeCloseTo ==
    /\ CanEvaluate
    /\ \E soft \in BOOLEAN, value \in CloseSubjects, expected \in CloseValues,
          precision \in Precisions :
           Step(Stmt("toBeCloseTo", Bool(soft), value, expected, precision, ""),
                toBeCloseTo(Expectation(soft, value), expected, precision))

CallToBeDefined ==
    /\ CanEvaluate
    /\ \E soft \in BOOLEAN, value \in Values :
           Step(Stmt("toBeDefined", Bool(soft), value, Undefined, Undefined, ""),
                toBeDefined(Expectation(soft, value)))

CallToBeFalsy ==
    /\ CanEvaluate
    /\ \E soft \in BOOLEAN, value \in Values :
           Step(Stmt("toBeFalsy", Bool(soft), value, Undefined, Undefined, ""),
                toBeFalsy(Expectation(soft, value)))

CallToBeGreaterThan ==
    /\ CanEvaluate
    /\ \E soft \in BOOLEAN, value \in Numbers, expected \in Numbers :
           Step(Stmt("toBeGreaterThan", Bool(soft), value, expected, Undefined, ""),
                toBeGreaterThan(Expectation(soft, value), expected))

CallToBeGreaterThanOrEqual ==
    /\ CanEvaluate
    /\ \E soft \in BOOLEAN, value \in Numbers, expected \in Numbers :
           Step(Stmt("toBeGreaterThanOrEqual", Bool(soft), value, expected,
                     Undefined, ""),
                toBeGreaterThanOrEqual(Expectation(soft, value), expected))

CallToBeLessThan ==
    /\ CanEvaluate
    /\ \E soft \in BOOLEAN, value \in Numbers, expected \in Numbers :
           Step(Stmt("toBeLessThan", Bool(soft), value, expected, Undefined, ""),
                toBeLessThan(Expectation(soft, value), expected))

CallToBeLessThanOrEqual ==
    /\ CanEvaluate
    /\ \E soft \in BOOLEAN, value \in Numbers, expected \in Numbers :
           Step(Stmt("toBeLessThanOrEqual", Bool(soft), value, expected,
                     Undefined, ""),
                toBeLessThanOrEqual(Expectation(soft, value), expected))

CallToBeNaN ==
    /\ CanEvaluate
    /\ \E soft \in BOOLEAN, value \in Values :
           Step(Stmt("toBeNaN", Bool(soft), value, Undefined, Undefined, ""),
                toBeNaN(Expectation(soft, value)))

CallToBeNull ==
    /\ CanEvaluate
    /\ \E soft \in BOOLEAN, value \in Values :
           Step(Stmt("toBeNull", Bool(soft), value, Undefined, Undefined, ""),
                toBeNull(Expectation(soft, value)))

CallToBeTruthy ==
    /\ CanEvaluate
    /\ \E soft \in BOOLEAN, value \in Values :
           Step(Stmt("toBeTruthy", Bool(soft), value, Undefined, Undefined, ""),
                toBeTruthy(Expectation(soft, value)))

CallToBeUndefined ==
    /\ CanEvaluate
    /\ \E soft \in BOOLEAN, value \in Values :
           Step(Stmt("toBeUndefined", Bool(soft), value, Undefined, Undefined, ""),
                toBeUndefined(Expectation(soft, value)))

CallToEqual ==
    /\ CanEvaluate
    /\ \E soft \in BOOLEAN, value \in EqValues, expected \in EqValues :
           Step(Stmt("toEqual", Bool(soft), value, expected, Undefined, ""),
                toEqual(Expectation(soft, value), expected))

CallToHaveLength ==
    /\ CanEvaluate
    /\ \E soft \in BOOLEAN, value \in Values, expected \in Lengths :
           Step(Stmt("toHaveLength", Bool(soft), value, expected, Undefined, ""),
                toHaveLength(Expectation(soft, value), expected))

\* the script body returns: the unit ran to its end
Complete ==
    /\ unitState = "Running"
    /\ unitState' = "Completed"
    /\ UNCHANGED <<evaluated, last, abortCalls, failCalls, checkCalls,
                   failedChecks, consoleLines, testAborted, iteration,
                   repeated, units>>

\* mutant: the next iteration starts whether the run was aborted or not
CanStartIteration_afterAbort ==
    /\ unitState \in {"Completed", "Failed", "Errored", "Aborted"}
    /\ iteration < MaxIterations

\* an iteration has ended, the run has not been aborted and iterations
\* remain: an iteration ended by a thrown error (fail, or a TypeError) does
\* not stop the run
CanStartIteration ==
    /\ ~testAborted
    /\ unitState \in {"Completed", "Failed", "Errored"}
    /\ iteration < MaxIterations

\* the run starts the script body again
StartIteration ==
    /\ CanStartIteration
    /\ iteration' = iteration + 1
    /\ unitState' = "Running"
    /\ evaluated' = 0
    /\ abortCalls' = 0
    /\ failCalls' = 0
    /\ checkCalls' = 0
    /\ failedChecks' = 0
    /\ consoleLines' = 0
    /\ last' = [stmt |-> NoStmt, eff |-> NoEffect]
    /\ repeated' = FALSE
    /\ UNCHANGED <<testAborted, units>>

Next ==
    \/ CallAssert
    \/ CallAssertEquals
    \/ CallToBe
    \/ CallToBeCloseTo
    \/ CallToBeDefined
    \/ CallToBeFalsy
    \/ CallToBeGreaterThan
    \/ CallToBeGreaterThanOrEqual
    \/ CallToBeLessThan
    \/ CallToBeLessThanOrEqual
    \/ CallToBeNaN
    \/ CallToBeNull
    \/ CallToBeTruthy
    \/ CallToBeUndefined
    \/ CallToEqual
    \/ CallToHaveLength
    \/ Complete
    \/ StartIteration

Spec == Init /\ [][Next]_vars

(***************************************************************************)
(* Parallel units: two virtual users of one test run, each running its own *)
(* script body, their statements interleaved in any order.                 *)
(***************************************************************************)
\* the statements of the parallel script bodies: a passing assert, a failing
\* hard assert, expect.soft(1).toEqual(2) and expect.soft(1).toBe(2)
ParStmts ==
    {Stmt("assert", Undefined, Bool(TRUE), Undefined, Undefined, "x"),
     Stmt("assert", Undefined, Bool(FALSE), Undefined, Undefined, "y"),
     Stmt("toEqual", Bool(TRUE), Whole(1), Whole(2), Undefined, ""),
     Stmt("toBe", Bool(TRUE), Whole(1), Whole(2), Undefined, "")}

\* the script bodies: one to MaxStmts statements
Programs == UNION {[1 .. n -> ParStmts] : n \in 1 .. MaxStmts}

InitPar ==
    /\ units \in [Units -> {NewUnit(program) : program \in Programs}]
    /\ unitState = "Running"
    /\ evaluated = 0
    /\ last = [stmt |-> NoStmt, eff |-> NoEffect]
    /\ abortCalls = 0
    /\ failCalls = 0
    /\ checkCalls = 0
    /\ failedChecks = 0
    /\ consoleLines = 0
    /\ testAborted = FALSE
    /\ iteration = 1
    /\ repeated = FALSE

\* mutant: the mode is kept in a variable the units share, and a unit runs
\* its statement in soft mode once another unit has run a soft statement
ParEffect_sharedMode(u, stmt) ==
    IF \E w \in Units \ {u} : \E i \in 1 .. Len(units[w].calls) :
           ToBoolean(units[w].program[i].soft)
    THEN EffectOf([stmt EXCEPT !.soft = Bool(TRUE)])
    ELSE EffectOf(stmt)

\* what the statement stmt does when unit u evaluates it: assert and the
\* matchers read their arguments and the closure of their own expectation,
\* nothing of another unit
ParEffect(u, stmt) == EffectOf(stmt)

\* unit u evaluates the next statement of its script body; a call of
\* exec.test.abort aborts the run, which stops every unit
ParStep(u) ==
    /\ ~testAborted
    /\ units[u].state = "Running"
    /\ units[u].pc <= Len(units[u].program)
    /\ LET eff == ParEffect(u, units[u].program[units[u].pc])
       IN  /\ units' = [units EXCEPT ![u] =
                            [program |-> @.program,
                             pc |-> @.pc + 1,
                             state |-> UnitAfter(eff),
                             calls |-> Append(@.calls, eff)]]
           /\ testAborted' = (eff.prim = "abort")
    /\ UNCHANGED <<unitState, evaluated, last, abortCalls, failCalls,
                   checkCalls, failedChecks, consoleLines, iteration, repeated>>

\* the script body of unit u returns
ParComplete(u) ==
    /\ ~testAborted
    /\ units[u].state = "Running"
    /\ units[u].pc > Len(units[u].program)
    /\ units' = [units EXCEPT ![u].state = "Completed"]
    /\ UNCHANGED <<unitState, evaluated, last, abortCalls, failCalls,
                   checkCalls, failedChecks, consoleLines, testAborted,
                   iteration, repeated>>

NextPar ==
    \/ \E u \in Units : ParStep(u)
    \/ \E u \in Units : ParComplete(u)

SpecPar == InitPar /\ [][NextPar]_vars

(***************************************************************************)
(* Properties.                                                             *)
(***************************************************************************)
\* the statement evaluated last ran in Hard mode: soft omitted or false, or
\* a matcher of expect(v)
LastHard == last.stmt.op # "none" /\ ~ToBoolean(last.stmt.soft)

\* the statement evaluated last ran in Soft mode
LastSoft == last.stmt.op # "none" /\ ToBoolean(last.stmt.soft)

\* control is still in the script body or has left it through its end
NotInterrupted == unitState \in {"Running", "Completed"}

\* C1: a hard assertion that evaluates a false verdict calls exec.test.abort
\* exactly once with its message and leaves the unit Aborted (an assert or
\* assertEquals passes the caller's message, a matcher the message it
\* composed); from Aborted, no further statement is evaluated and no
\* primitive is called again.
C1_HardFailFast ==
    /\ []((LastHard /\ last.eff.verdict = "false") =>
            /\ last.eff.prim = "abort"
            /\ abortCalls = 1
            /\ failCalls = 0
            /\ unitState = "Aborted"
            /\ testAborted
            /\ last.eff.msg # ""
            /\ (last.stmt.op \in {"assert", "assertEquals"} =>
                    last.eff.msg = last.stmt.m))
    /\ [](unitState = "Aborted" <=> abortCalls = 1)
    /\ [][unitState = "Aborted" => UNCHANGED vars]_vars

\* C1 witness: assert(false, "y") evaluated as the second statement of a unit
\* has aborted it with "y"
C1_Witness ==
    /\ evaluated = 2
    /\ last.stmt = Stmt("assert", Undefined, Bool(FALSE), Undefined, Undefined, "y")
    /\ last.eff.prim = "abort"
    /\ last.eff.msg = "y"
    /\ unitState = "Aborted"

\* C2: a soft assertion that goes through assert and evaluates a false
\* verdict calls fail with the message, never exec.test.abort, and returns to
\* its caller, so that the unit goes on with its next statement.
C2_SoftFailureContinues ==
    (LastSoft /\ last.stmt.op # "toBe" /\ last.eff.verdict = "false") =>
        /\ last.eff.prim = "fail"
        /\ abortCalls = 0
        /\ NotInterrupted

\* C3: a unit that has left its script body after a soft failure and without
\* a hard failure has run to the end of the body: it is Completed, with
\* hadSoftFailure set.
C3_SoftFailedUnitCompletes ==
    (unitState # "Running" /\ failCalls > 0 /\ abortCalls = 0) =>
        (unitState = "Completed" /\ hadSoftFailure)

\* C4: a statement that evaluates a true verdict calls no primitive, writes
\* nothing to the console and lets the unit go on.
C4_PassHasNoEffect ==
    last.eff.verdict = "true" =>
        /\ last.eff.prim = "none"
        /\ last.eff.logs = 0
        /\ NotInterrupted

\* C5: expect(v).toBe(v) passes for every value v: it returns without calling
\* exec.test.abort and without raising.
C5_ToBeReflexive ==
    (last.stmt.op = "toBe" /\ LastHard /\ last.stmt.a = last.stmt.b) =>
        /\ ~last.eff.raised
        /\ last.eff.prim = "none"
        /\ NotInterrupted

\* C6: for v1 !== v2, expect.soft(v1).toBe(v2) registers a failure with the
\* controller without aborting and without raising, and the unit goes on.
C6_SoftToBeRegistersFailure ==
    (last.stmt.op = "toBe" /\ LastSoft
        /\ ~StrictEquals(last.stmt.a, last.stmt.b)) =>
        /\ ~last.eff.raised
        /\ last.eff.prim \in {"fail", "check"}
        /\ (last.eff.prim = "check" => ~last.eff.ok)
        /\ abortCalls = 0
        /\ NotInterrupted

\* the statement evaluated last is a matcher call
LastMatcher == last.stmt.op \notin {"none", "assert", "assertEquals"}

\* the statement evaluated last reported a failure to the controller
\* without aborting
LastReportedSoftFailure ==
    \/ last.eff.prim = "fail"
    \/ last.eff.prim = "check" /\ ~last.eff.ok

\* C7: a matcher of expect.soft(v) computes the verdict the same matcher of
\* expect(v) computes on the same argument, and reports a failure to the
\* controller exactly when the hard call would abort.
C7_SoftMirrorsHard ==
    (LastMatcher /\ LastSoft) =>
        LET hard == EffectOf([last.stmt EXCEPT !.soft = Bool(FALSE)])
        IN  /\ last.eff.verdict = hard.verdict
            /\ LastReportedSoftFailure <=> hard.prim = "abort"

C9_ToEqualStructural ==
    last.stmt.op = "toEqual" =>
        LET a == JSONStringify(last.stmt.a)
            b == JSONStringify(last.stmt.b)
        IN  /\ last.eff.raised <=> (a.k = "throw" \/ b.k = "throw")
            /\ ~last.eff.raised =>
                   /\ last.eff.verdict = "true" <=> (a.k = b.k /\ a.s = b.s)
                   /\ last.eff.verdict = "true" =>
                          (last.eff.prim = "none" /\ NotInterrupted)
                   /\ last.eff.verdict = "false" =>
                          last.eff.prim \in {"abort", "fail"}
            /\ (last.stmt.a = Ref(1) /\ last.stmt.b = Ref(2)) =>
                   last.eff.verdict = "true"
            /\ (last.stmt.a = Ref(3) /\ last.stmt.b = Ref(4)) =>
                   last.eff.verdict = "false"

\* C9 witness: expect({a:1}).toEqual({a:1}) on two distinct instances has
\* passed
C9_Witness ==
    /\ last.stmt = Stmt("toEqual", Bool(FALSE), Ref(1), Ref(2), Undefined, "")
    /\ last.eff.verdict = "true"
    /\ last.eff.prim = "none"
    /\ unitState = "Running"

\* C10: assertEquals(lhs, rhs, message, soft) does what
\* assert(lhs === rhs, message, soft) does: operands of the same type and
\* value (the same reference, for objects) have no effect; any other pair,
\* two instances of {a:1} and the pair 1, "1" included, is a failure
\* dispatched per the soft argument with the caller's message.
C10_AssertEqualsStrict ==
    last.stmt.op = "assertEquals" =>
        LET l == last.stmt.a
            r == last.stmt.b
            same == l.t = r.t /\ l.n = r.n /\ l.s = r.s /\ l.t # "NaN"
        IN  /\ last.eff = assert(same, last.stmt.m, last.stmt.soft)
            /\ same => (last.eff.prim = "none" /\ NotInterrupted)
            /\ ~same =>
                   /\ last.eff.msg = last.stmt.m
                   /\ last.eff.prim =
                          (IF last.stmt.soft = Bool(TRUE) THEN "fail" ELSE "abort")
            /\ (l = Ref(1) /\ r = Ref(2)) => last.eff.verdict = "false"
            /\ (l = Whole(1) /\ r = Str("1")) => last.eff.verdict = "false"

\* C10 witness: assertEquals(1, "1", "y") has aborted the unit with "y"
C10_Witness ==
    /\ last.stmt = Stmt("assertEquals", Undefined, Whole(1), Str("1"), Undefined, "y")
    /\ last.eff.prim = "abort"
    /\ last.eff.msg = "y"
    /\ unitState = "Aborted"

C12_HardFailureStopsRun ==
    /\ []((LastHard /\ last.eff.verdict = "false") => testAborted)
    /\ [](testAborted <=> unitState = "Aborted")
    /\ [][~testAborted]_vars
    /\ [][iteration' # iteration =>
            /\ iteration' = iteration + 1
            /\ abortCalls = 0
            /\ unitState \in {"Completed", "Failed", "Errored"}]_vars

\* C12 witness: a hard assertion has failed in the first iteration of a run
\* configured with more iterations than one
C12_Witness ==
    /\ iteration = 1
    /\ iteration < MaxIterations
    /\ LastHard
    /\ last.eff.verdict = "false"
    /\ testAborted
    /\ unitState = "Aborted"


\* the subjects that expose a length: strings and arrays
HasLength(v) ==
    v.t = "string" \/ (v.t = "object" /\ Heap[v.n].kind = "array")

\* C13: toHaveLength(expected) passes exactly when the subject has a length
\* and it is expected; on a subject that exposes no length (a number, a
\* boolean, a plain object, null, undefined) it dispatches no assertion
\* failure: a native error is raised.
C13_ToHaveLengthTypeMismatch ==
    last.stmt.op = "toHaveLength" =>
        LET v == last.stmt.a
        IN  /\ last.eff.verdict = "true" <=>
                  (HasLength(v) /\ LengthOf(v) = last.stmt.b)
            /\ ~HasLength(v) =>
                  /\ last.eff.raised
                  /\ last.eff.prim = "none"
                  /\ unitState = "Errored"


\* part occurs in text
Contains(text, part) ==
    \E i \in 1 .. (Len(text) - Len(part) + 1) :
        SubSeq(text, i, i + Len(part) - 1) = part

\* the statement evaluated last reported a failure to the controller
LastReportedFailure == last.eff.prim = "abort" \/ LastReportedSoftFailure

\* C14: every failure a matcher reports to the controller, in both modes,
\* carries the composed message: the header line (styled red), then the
\* context block with the expected value styled green, the serialized
\* subject styled red and the location marker; for the matchers whose
\* expected value is their argument, the green value is the serialized
\* argument.
C14_FailureMessageComposed ==
    (LastMatcher /\ LastReportedFailure) =>
        LET msg == last.eff.msg
            actual == JSONText(JSONStringify(last.stmt.a))
            wanted == JSONText(JSONStringify(last.stmt.b))
        IN  /\ Contains(msg, ANSI_COLORS.red \o "Expected value ")
            /\ Contains(msg, "\n  Expected: " \o ANSI_COLORS.green)
            /\ Contains(msg, "\n  Received: " \o colorize(actual, "red"))
            /\ Contains(msg, "\n  At:")
            /\ last.stmt.op \in {"toBe", "toBeCloseTo", "toEqual", "toHaveLength"} =>
                  Contains(msg, "\n  Expected: " \o colorize(wanted, "green"))


\* C15: toBeNaN passes exactly when the subject is the number NaN; any other
\* subject (undefined, a non-numeric string, an object) is a failure
\* dispatched per the bound mode.
C15_ToBeNaNOnlyNaN ==
    last.stmt.op = "toBeNaN" =>
        /\ last.eff.verdict = "true" <=> last.stmt.a = NaN
        /\ last.stmt.a # NaN =>
              /\ last.eff.verdict = "false"
              /\ last.eff.prim \in {"abort", "fail"}


\* the falsy values the specification lists: false, 0, "", null, undefined
\* and NaN
ListedFalsy == {Bool(FALSE), Whole(0), Str(""), Null, Undefined, NaN}

\* C16: toBeTruthy and toBeFalsy partition the values: on the subject of a
\* toBeTruthy or toBeFalsy call exactly one of the two matchers passes, and
\* toBeFalsy is the one exactly when the subject is false, 0, "", null,
\* undefined or NaN.
C16_TruthyFalsyPartition ==
    last.stmt.op \in {"toBeTruthy", "toBeFalsy"} =>
        LET e == Expectation(ToBoolean(last.stmt.soft), last.stmt.a)
            truthy == toBeTruthy(e)
            falsy == toBeFalsy(e)
        IN  /\ last.eff = (IF last.stmt.op = "toBeTruthy" THEN truthy ELSE falsy)
            /\ truthy.verdict = "true" <=> falsy.verdict # "true"
            /\ falsy.verdict = "true" <=> last.stmt.a \in ListedFalsy


C18_OneDispatchThroughAssert ==
    (LastMatcher /\ last.eff.verdict # "none") =>
        /\ last.eff.dispatched = 1
        /\ last.eff.prim \in {"none", "abort", "fail"}
        /\ last.eff.prim =
              assert(last.eff.verdict = "true", last.eff.msg, last.stmt.soft).prim
        /\ checkCalls = 0


\* C19: the diagnostic is built on the failure path only: a matcher
\* invocation whose verdict is true has not run createExpectationMessage
\* (and with it the serialization of the subject and the capture of the
\* location).
C19_MessageBuiltLazily ==
    (LastMatcher /\ last.eff.verdict = "true") => ~last.eff.built

\* the comparison the matcher statement stmt makes is well defined and true
ComparisonHolds(stmt) ==
    CASE stmt.op = "toBe" -> StrictEquals(stmt.a, stmt.b)
      [] stmt.op = "toBeDefined" -> stmt.a # Undefined
      [] stmt.op = "toBeTruthy" -> ToBoolean(stmt.a)
      [] stmt.op = "toBeFalsy" -> ~ToBoolean(stmt.a)
      [] stmt.op = "toBeNull" -> stmt.a = Null
      [] stmt.op = "toBeUndefined" -> stmt.a = Undefined
      [] OTHER -> FALSE

\* C20: a matcher never raises for the comparison itself: when the
\* comparison is well defined and true (an object compared to itself with
\* toBe, a defined subject with toBeDefined, a truthy one with toBeTruthy),
\* also for a subject that cannot be serialized, the invocation returns
\* normally: no error is raised, no primitive is called and the unit goes
\* on.
C20_NoRaiseOnTrueComparison ==
    (LastMatcher /\ ComparisonHolds(last.stmt)) =>
        /\ ~last.eff.raised
        /\ last.eff.prim = "none"
        /\ NotInterrupted


\* C21: the state machine of a unit.  A unit starts in Running and is never
\* in a state other than Running, Aborted and Completed; it is Aborted only
\* through a hard failure and Completed only when it made no call of
\* exec.test.abort; once it is Aborted or Completed no statement is
\* evaluated in it and its state does not change; it calls exec.test.abort
\* at most once.
C21_UnitStateMachine ==
    /\ unitState = "Running"
    /\ [](unitState \in {"Running", "Aborted", "Completed"})
    /\ [](unitState = "Aborted" =>
            (LastHard /\ last.eff.verdict = "false" /\ abortCalls = 1))
    /\ [](unitState = "Completed" => abortCalls = 0)
    /\ [](abortCalls <= 1)
    /\ [][(unitState \in {"Aborted", "Completed"} /\ iteration' = iteration) =>
            UNCHANGED <<unitState, evaluated, last, abortCalls>>]_vars


\* the calls a unit makes when it runs the script body program alone, from
\* statement i on: it stops at the first statement that interrupts it
RECURSIVE SoloCalls(_, _)
SoloCalls(program, i) ==
    IF i > Len(program) THEN <<>>
    ELSE LET eff == EffectOf(program[i])
         IN  IF UnitAfter(eff) = "Running"
             THEN <<eff>> \o SoloCalls(program, i + 1)
             ELSE <<eff>>

\* the state a unit ends in when it runs the script body program alone
SoloEnd(program) ==
    LET calls == SoloCalls(program, 1)
    IN  IF calls = <<>> THEN "Completed"
        ELSE IF UnitAfter(calls[Len(calls)]) = "Running" THEN "Completed"
        ELSE UnitAfter(calls[Len(calls)])

\* no unit of the run can take a further step
RunOver == \A u \in Units : testAborted \/ units[u].state # "Running"

\* C22 as amended: the parallel units are independent up to an abort of the
\* run.  In every interleaving each unit's calls (verdict, primitive and
\* message) are, one by one, the calls it makes when it runs alone; a unit
\* that has left its script body has made all of them and ends in the state
\* it ends in alone; and a unit makes fewer calls than alone only when
\* another unit's hard failure has aborted the run.
C22_IndependentUntilAbort ==
    \A u \in Units :
        LET solo == SoloCalls(units[u].program, 1)
            calls == units[u].calls
        IN  /\ Len(calls) <= Len(solo)
            /\ calls = SubSeq(solo, 1, Len(calls))
            /\ units[u].pc = Len(calls) + 1
            /\ units[u].state # "Running" =>
                  (calls = solo /\ units[u].state = SoloEnd(units[u].program))
            /\ (RunOver /\ calls # solo) =>
                  /\ testAborted
                  /\ units[u].state = "Running"
                  /\ \E w \in Units \ {u} : units[w].state = "Aborted"

\* C22 witness: both units have evaluated a statement of their own, the
\* second a failing soft matcher after the first one's soft toBe, and each
\* has made the call it makes alone
C22_Witness ==
    /\ ~testAborted
    /\ units[1].calls # <<>>
    /\ units[1].calls[1].prim = "check"
    /\ units[2].calls # <<>>
    /\ units[2].calls[1].prim = "fail"
    /\ units[2].state = "Failed"
    /\ units[1].state = "Running"
    /\ units[1].pc <= Len(units[1].program)

\* C22: at the end of every interleaving of two units, each unit has issued
\* the sequence of controller calls it issues when it runs alone.
C22_SameCallsAsAlone ==
    RunOver => \A u \in Units : units[u].calls = SoloCalls(units[u].program, 1)


\* a call passed: it raised nothing, its verdict is true and it called no
\* primitive
Passed(eff) == ~eff.raised /\ eff.verdict = "true" /\ eff.prim = "none"

\* C23: strict equality implies structural equality.  For two values that
\* JSON.stringify accepts, undefined and null included, whenever
\* expect(v).toBe(e) passes expect(v).toEqual(e) passes too; the converse
\* does not hold: on two instances of {a:1}, and on NaN and NaN, toEqual
\* passes and toBe does not.
C23_ToBeImpliesToEqual ==
    (last.stmt.op \in {"toBe", "toEqual"} /\ LastHard
        /\ JSONStringify(last.stmt.a).k # "throw"
        /\ JSONStringify(last.stmt.b).k # "throw") =>
        LET strict == toBe(expect(last.stmt.a), last.stmt.b)
            structural == toEqual(expect(last.stmt.a), last.stmt.b)
        IN  /\ last.eff = (IF last.stmt.op = "toBe" THEN strict ELSE structural)
            /\ Passed(strict) => Passed(structural)
            /\ (last.stmt.a = last.stmt.b /\ last.stmt.a \in {Undefined, Null}) =>
                  (Passed(strict) /\ Passed(structural))
            /\ ((last.stmt.a = Ref(1) /\ last.stmt.b = Ref(2))
                  \/ (last.stmt.a = NaN /\ last.stmt.b = NaN)) =>
                  (Passed(structural) /\ ~Passed(strict))

\* C23 witness: expect(undefined).toBe(undefined) has passed, and
\* expect(undefined).toEqual(undefined) passes too
C23_Witness ==
    /\ last.stmt = Stmt("toBe", Bool(FALSE), Undefined, Undefined, Undefined, "")
    /\ Passed(last.eff)
    /\ Passed(toEqual(expect(Undefined), Undefined))
    /\ unitState = "Running"


=============================================================================
